---- MODULE Spec2Model ----
(***************************************************************************)
(* The session lifecycle controller of kali-on-cloudflare: the KaliSession *)
(* Durable Object of src/src/durable-object.ts, one instance.               *)
(*                                                                         *)
(* Execution model.  A Durable Object runs its handlers on one thread, and *)
(* a handler gives up control only at an await.  While a storage operation *)
(* (storage.put, storage.deleteAll) is awaited the runtime's input gate    *)
(* delivers no other event, so those awaits do not interleave; the awaits  *)
(* of a sandbox call (container.start, container.destroy, the fetch on the *)
(* container port) do.  One action below is therefore one handler segment: *)
(* from the delivery of a request or a timer callback to the first sandbox *)
(* await or the return, and from the completion of that sandbox call to    *)
(* the return.  The code takes no lock, so any number of handlers may be   *)
(* suspended at their sandbox await at once.                               *)
(***************************************************************************)
EXTENDS Integers, Sequences, FiniteSets, TLC

\* ---------------------------------------------------------------- bounds
MaxTime == 2          \* the clock runs 0..MaxTime, one unit = one timer period
IdleTimeout == 1      \* env.IDLE_TIMEOUT_MS, in clock units
MaxInflight == 2      \* handlers suspended at a sandbox await at once
MaxIntervals == 2     \* live setInterval timers at once
MaxStreams == 1       \* open client streams at once
MaxCreates == 2       \* POST /api/sessions requests the worker receives

\* ------------------------------------------------------------ vocabulary
NULL == [null |-> TRUE]
NoInterval == 0
NoMessage == "<absent>"
ADMIN_GROUP == "kali-admins"

Alice == [email |-> "alice", groups |-> {}]
Bob == [email |-> "bob", groups |-> {"staff"}]
Root == [email |-> "root", groups |-> {"kali-admins"}]
Identities == {Alice, Bob, Root}

\* The X-Identity header of a request: absent, not JSON, or an identity.
MissingHeader == [kind |-> "missing"]
GarbageHeader == [kind |-> "garbage"]
IdentityHeader(i) == [kind |-> "json", identity |-> i]
Headers == {MissingHeader, GarbageHeader} \cup {IdentityHeader(i) : i \in Identities}

\* X-Session-Id of /create ("" when the header is absent).  The worker sends
\* the id it generated (worker.ts line 111); that is the value modelled.
SessionIdHeaders == {"sid-1"}
CtxId == "do-id"

SessionStatus == {"created", "starting", "running", "stopped", "error"}
AwaitOps == {"start", "stop", "destroy", "idle", "ws"}
StartErrors == {"start failed"}
\* The one call that starts the container, lines 122-124.
StartCall == "container.start({enableInternet: true})"
NoBinding == "Container binding not available"
AnyOp == "*"

\* The worker: the quota, the session ids it generates (crypto.randomUUID,
\* each value new), its create invocations and the owners it indexes by.
MAX_SESSIONS_PER_USER == 1
SessionIds == 1..MaxCreates
CallIds == 1..MaxCreates
Owners == {i.email : i \in Identities}
\* The callers of the worker: one who is not an admin and one who is.
WorkerIdentities == {Alice, Root}
FreeCall == [pc |-> "free", identity |-> NULL, sessionIds |-> {}, sessionId |-> 0]

VARIABLES
  sessionData,        \* this.sessionData: NULL or the SessionState
  storage,            \* ctx.storage "session": NULL or the stored SessionState
  activeWebSockets,   \* this.activeWebSockets
  idleCheckInterval,  \* this.idleCheckInterval: NoInterval or a timer id
  intervals,          \* the setInterval timers that are live in the runtime
  hasContainer,       \* whether ctx.container is bound
  sandbox,            \* the container: "off" or "on"
  openStreams,        \* client streams handed out by /ws and still open
  awaiting,           \* per operation, the handlers suspended at a sandbox await
  now,                \* Date.now()
  last,               \* the step just taken and the response it returned
  effects,            \* the calls and log events of the step just taken, in order
  noMoreRequests,     \* the environment has stopped sending requests
  SESSION_INDEX,      \* worker: env.SESSION_INDEX, the KV index of sessions
  KALI_SESSION,       \* worker: env.KALI_SESSION, the record of each object
  calls               \* worker: the handleCreateSession invocations

vars == <<sessionData, storage, activeWebSockets, idleCheckInterval, intervals,
          hasContainer, sandbox, openStreams, awaiting, now, last, effects,
          noMoreRequests, SESSION_INDEX, KALI_SESSION, calls>>

\* The state of the one controller instance, and the state the worker sees.
controllerVars == <<sessionData, storage, activeWebSockets, idleCheckInterval,
                    intervals, hasContainer, sandbox, openStreams, awaiting, now,
                    noMoreRequests>>
workerVars == <<SESSION_INDEX, KALI_SESSION, calls>>

\* ------------------------------------------------------------- identity
getOwnerIdentifier(identity) == identity.email

isAdminOfAnyGroup(identity, adminGroup) == identity.groups # {}

isAdmin(identity, adminGroup) == adminGroup \in identity.groups

\* A decision that knows the owner only.
isAuthorizedOwnerOnly(identity) ==
  IF sessionData = NULL THEN TRUE
  ELSE sessionData.owner = getOwnerIdentifier(identity)

isAuthorized(identity) ==
  IF sessionData = NULL THEN TRUE
  ELSE IF sessionData.owner = getOwnerIdentifier(identity) THEN TRUE
  ELSE IF isAdmin(identity, ADMIN_GROUP) THEN TRUE
  ELSE FALSE

\* A check that lets a request without a usable header through as long as
\* there is no record to protect.
AdmittedWhenNoRecord(h) ==
  IF h.kind = "json" THEN isAuthorized(h.identity) ELSE sessionData = NULL

\* fetch, lines 24-38: the request passes the identity checks.
Admitted(h) == h.kind = "json" /\ isAuthorized(h.identity)

\* --------------------------------------------------------------- helpers
Inflight == awaiting["start"] + awaiting["stop"] + awaiting["destroy"]
            + awaiting["idle"] + awaiting["ws"]

Suspend(op) == awaiting' = [awaiting EXCEPT ![op] = @ + 1]
Resume(op) == awaiting' = [awaiting EXCEPT ![op] = @ - 1]

Did(act, op, caller, code, body, eff) ==
  /\ last' = [act |-> act, op |-> op, caller |-> caller, code |-> code, body |-> body]
  /\ effects' = eff
  /\ UNCHANGED noMoreRequests
  /\ UNCHANGED workerVars

\* saveSession: the stored value after saving record rec.
saveSession(rec) == IF rec # NULL THEN rec ELSE storage

FreshInterval == CHOOSE t \in 1..MaxIntervals : t \notin intervals
FreshStream == CHOOSE s \in 1..MaxStreams : s \notin openStreams

Init ==
  /\ sessionData = NULL
  /\ storage = NULL
  /\ activeWebSockets = {}
  /\ idleCheckInterval = NoInterval
  /\ intervals = {}
  /\ hasContainer \in BOOLEAN
  /\ sandbox = "off"
  /\ openStreams = {}
  /\ awaiting = [op \in AwaitOps |-> 0]
  /\ now = 0
  /\ last = [act |-> "init", op |-> "", caller |-> MissingHeader, code |-> 0, body |-> ""]
  /\ effects = <<>>
  /\ noMoreRequests = FALSE
  /\ SESSION_INDEX = [session |-> [s \in SessionIds |-> NULL],
                      owner |-> [o \in Owners |-> {}]]
  /\ KALI_SESSION = [s \in SessionIds |-> NULL]
  /\ calls = [c \in CallIds |-> FreeCall]

\* ---------------------------------------------------------------- fetch
\* fetch, lines 24-38: no identity, an unparsable one, or not authorized.  The
\* refusal comes before the path and the method are looked at, so it is the same
\* step for every operation requested: AnyOp stands for the path.
FetchForbidden(h) ==
  /\ ~Admitted(h)
  /\ Did("fetch", AnyOp, h, 403, "Forbidden", <<>>)
  /\ UNCHANGED <<sessionData, storage, activeWebSockets, idleCheckInterval, intervals,
                 hasContainer, sandbox, openStreams, awaiting, now>>

\* fetch, line 64: no route matches.
FetchNotFound(h) ==
  /\ Admitted(h)
  /\ Did("fetch", "other", h, 404, "Not Found", <<>>)
  /\ UNCHANGED <<sessionData, storage, activeWebSockets, idleCheckInterval, intervals,
                 hasContainer, sandbox, openStreams, awaiting, now>>

\* handleCreate, line 82: a record exists already.
CreateConflictsNever == FALSE

\* A test that protects the record only once the session has been started.
CreateConflictsOnceStarted ==
  IF sessionData = NULL THEN FALSE ELSE sessionData.status # "created"

CreateConflicts == sessionData # NULL

handleCreate(h, sidHeader) ==
  /\ Admitted(h)
  /\ IF CreateConflicts
       THEN /\ Did("fetch", "create", h, 409, "Session already exists", <<>>)
            /\ UNCHANGED <<sessionData, storage>>
       ELSE LET rec == [sessionId |-> IF sidHeader # "" THEN sidHeader ELSE CtxId,
                        owner |-> getOwnerIdentifier(h.identity),
                        status |-> "created",
                        createdAt |-> now,
                        lastSeen |-> now,
                        errorMessage |-> NoMessage]
            IN /\ sessionData' = rec
               /\ storage' = rec
               /\ Did("fetch", "create", h, 200, "created",
                      <<"storage.put", "log:session_created">>)
  /\ UNCHANGED <<activeWebSockets, idleCheckInterval, intervals, hasContainer,
                 sandbox, openStreams, awaiting, now>>

\* The response body of handleStatus, lines 183-189.
StatusBody(rec) ==
  [sessionId |-> rec.sessionId, owner |-> rec.owner, status |-> rec.status,
   createdAt |-> rec.createdAt, lastSeen |-> rec.lastSeen]

handleStatus(h) ==
  /\ Admitted(h)
  /\ IF sessionData = NULL
       THEN Did("fetch", "status", h, 404, "Session not found", <<>>)
       ELSE Did("fetch", "status", h, 200, StatusBody(sessionData), <<>>)
  /\ UNCHANGED <<sessionData, storage, activeWebSockets, idleCheckInterval, intervals,
                 hasContainer, sandbox, openStreams, awaiting, now>>

\* ------------------------------------------------------- stopContainer
Repeat(tag, n) == [i \in 1..n |-> tag]

\* A status write without the null guard of line 268, which makes a record
\* out of nothing.
StoppedFromNothing(rec) ==
  IF rec = NULL
    THEN [sessionId |-> CtxId, owner |-> "", status |-> "stopped", createdAt |-> 0,
          lastSeen |-> 0, errorMessage |-> NoMessage]
    ELSE [rec EXCEPT !.status = "stopped"]

\* The status write of stopContainer, lines 268-270.
Stopped(rec) == IF rec = NULL THEN NULL ELSE [rec EXCEPT !.status = "stopped"]

\* stopContainer up to the await of container.destroy(), lines 246-262.
\* A quiesce that leaves the idle timer armed.
StopContainerBeginKeepsTimer ==
  /\ UNCHANGED <<intervals, idleCheckInterval>>
  /\ openStreams' = openStreams \ activeWebSockets
  /\ activeWebSockets' = {}

StopContainerBegin ==
  /\ intervals' = intervals \ {idleCheckInterval}
  /\ idleCheckInterval' = NoInterval
  /\ openStreams' = openStreams \ activeWebSockets
  /\ activeWebSockets' = {}

StopContainerBeginEffects ==
  (IF idleCheckInterval # NoInterval THEN <<"clearInterval">> ELSE <<>>)
  \o Repeat("ws.close", Cardinality(activeWebSockets))
  \o (IF hasContainer THEN <<"container.destroy">> ELSE <<>>)

\* stopContainer after container.destroy() returned or threw, lines 268-272.
StopContainerEndEffects ==
  IF sessionData # NULL THEN <<"storage.put", "log:session_stopped">> ELSE <<>>

\* ---------------------------------------------------------- handleStart
\* A Start that forgets to arm the timer.
startIdleCheckSkipped == UNCHANGED <<idleCheckInterval, intervals>>

startIdleCheck ==
  /\ idleCheckInterval' = FreshInterval
  /\ intervals' = intervals \cup {FreshInterval}

\* handleStart, line 108: nothing to do.
StartIsNoopNever(rec) == FALSE

StartIsNoop(rec) == rec.status = "running"

handleStart(h) ==
  /\ Admitted(h)
  /\ IF sessionData = NULL
       THEN /\ Did("fetch", "start", h, 404, "Session not found", <<>>)
            /\ UNCHANGED <<sessionData, storage, awaiting>>
     ELSE IF StartIsNoop(sessionData)
       THEN /\ Did("fetch", "start", h, 200, "running", <<>>)
            /\ UNCHANGED <<sessionData, storage, awaiting>>
     ELSE LET starting == [sessionData EXCEPT !.status = "starting"]
              failed == [starting EXCEPT !.status = "error", !.errorMessage = NoBinding]
          IN IF ~hasContainer
               THEN /\ sessionData' = failed
                    /\ storage' = failed
                    /\ Did("fetch", "start", h, 500, NoBinding,
                           <<"storage.put", "storage.put", "log:error">>)
                    /\ UNCHANGED awaiting
               ELSE /\ Inflight < MaxInflight
                    /\ sessionData' = starting
                    /\ storage' = starting
                    /\ Suspend("start")
                    /\ Did("fetch", "start", h, 0, "", <<"storage.put", StartCall>>)
  /\ UNCHANGED <<activeWebSockets, idleCheckInterval, intervals, hasContainer,
                 sandbox, openStreams, now>>

\* handleStart after container.start() returned ("ok") or threw, lines 126-144.
startResume(outcome) ==
  /\ awaiting["start"] > 0
  /\ Resume("start")
  /\ sandbox' = IF outcome = "ok" THEN "on" ELSE sandbox
  /\ IF sessionData = NULL
       THEN \* line 126 or 137 dereferences null; the catch block throws again
            /\ Did("resume", "start", MissingHeader, 500, "exception", <<"throw:TypeError">>)
            /\ UNCHANGED <<sessionData, storage, idleCheckInterval, intervals>>
     ELSE IF outcome = "ok"
       THEN LET rec == [sessionData EXCEPT !.status = "running", !.lastSeen = now]
            IN /\ Cardinality(intervals) < MaxIntervals
               /\ sessionData' = rec
               /\ storage' = saveSession(rec)
               /\ startIdleCheck
               /\ Did("resume", "start", MissingHeader, 200, "running",
                      <<"storage.put", "setInterval", "log:session_started">>)
     ELSE LET rec == [sessionData EXCEPT !.status = "error", !.errorMessage = outcome]
          IN /\ sessionData' = rec
             /\ storage' = saveSession(rec)
             /\ Did("resume", "start", MissingHeader, 500, outcome,
                    <<"storage.put", "log:error">>)
             /\ UNCHANGED <<idleCheckInterval, intervals>>
  /\ UNCHANGED <<activeWebSockets, hasContainer, openStreams, now>>

\* ----------------------------------------------------------- handleStop
\* handleStop, line 152: nothing to do.
StopIsNoopNever(rec) == FALSE

StopIsNoop(rec) == rec.status = "stopped"

handleStop(h) ==
  /\ Admitted(h)
  /\ IF sessionData = NULL
       THEN /\ Did("fetch", "stop", h, 404, "Session not found", <<>>)
            /\ UNCHANGED <<sessionData, storage, awaiting, activeWebSockets,
                           idleCheckInterval, intervals, openStreams>>
     ELSE IF StopIsNoop(sessionData)
       THEN /\ Did("fetch", "stop", h, 200, "stopped", <<>>)
            /\ UNCHANGED <<sessionData, storage, awaiting, activeWebSockets,
                           idleCheckInterval, intervals, openStreams>>
     ELSE /\ StopContainerBegin
          /\ IF hasContainer
               THEN /\ Inflight < MaxInflight
                    /\ Suspend("stop")
                    /\ Did("fetch", "stop", h, 0, "", StopContainerBeginEffects)
                    /\ UNCHANGED <<sessionData, storage>>
               ELSE /\ sessionData' = Stopped(sessionData)
                    /\ storage' = saveSession(Stopped(sessionData))
                    /\ Did("fetch", "stop", h, 200, "stopped",
                           StopContainerBeginEffects \o StopContainerEndEffects)
                    /\ UNCHANGED awaiting
  /\ UNCHANGED <<hasContainer, sandbox, now>>

\* -------------------------------------------------------- handleDestroy
\* handleDestroy, line 162: there is no record.
DestroyNotFoundNever == FALSE

DestroyNotFound == sessionData = NULL

\* A deletion that leaves the "session" key in place.
deleteAllKeepsSession == storage

\* ctx.storage.deleteAll() (line 170): the "session" key afterwards.
deleteAll == NULL

handleDestroy(h) ==
  /\ Admitted(h)
  /\ IF DestroyNotFound
       THEN /\ Did("fetch", "destroy", h, 404, "Session not found", <<>>)
            /\ UNCHANGED <<sessionData, storage, awaiting, activeWebSockets,
                           idleCheckInterval, intervals, openStreams>>
     ELSE /\ StopContainerBegin
          /\ IF hasContainer
               THEN /\ Inflight < MaxInflight
                    /\ Suspend("destroy")
                    /\ Did("fetch", "destroy", h, 0, "", StopContainerBeginEffects)
                    /\ UNCHANGED <<sessionData, storage>>
               ELSE /\ sessionData' = NULL
                    /\ storage' = deleteAll
                    /\ Did("fetch", "destroy", h, 200, "success",
                           StopContainerBeginEffects \o StopContainerEndEffects
                           \o <<"storage.deleteAll", "log:session_destroyed">>)
                    /\ UNCHANGED awaiting
  /\ UNCHANGED <<hasContainer, sandbox, now>>

\* A continuation that does not swallow the failure of container.destroy():
\* the record goes to error and the caller is told.
stopContainerResumeRethrow(op, ok) ==
  /\ awaiting[op] > 0
  /\ Resume(op)
  /\ sandbox' = IF ok THEN "off" ELSE sandbox
  /\ openStreams' = IF ok THEN {} ELSE openStreams
  /\ IF ~ok /\ sessionData # NULL
       THEN LET rec == [sessionData EXCEPT !.status = "error"]
            IN /\ sessionData' = rec
               /\ storage' = rec
               /\ Did(IF op = "idle" THEN "timer" ELSE "resume", op, MissingHeader, 500,
                      "destroy failed", <<"storage.put", "log:error">>)
     ELSE IF op = "destroy"
       THEN /\ sessionData' = NULL
            /\ storage' = NULL
            /\ Did("resume", op, MissingHeader, 200, "success",
                   StopContainerEndEffects \o <<"storage.deleteAll", "log:session_destroyed">>)
     ELSE /\ sessionData' = Stopped(sessionData)
          /\ storage' = saveSession(Stopped(sessionData))
          /\ Did(IF op = "idle" THEN "timer" ELSE "resume", op, MissingHeader,
                 IF sessionData = NULL THEN 500 ELSE 200, "stopped", StopContainerEndEffects)
  /\ UNCHANGED <<activeWebSockets, idleCheckInterval, intervals, hasContainer, now>>

\* stopContainer resumed after container.destroy() returned (ok) or threw (the
\* exception is swallowed), then the rest of the caller: handleStop line 158,
\* handleDestroy lines 170-175, or the end of the timer callback.
stopContainerResume(op, ok) ==
  /\ awaiting[op] > 0
  /\ Resume(op)
  /\ sandbox' = IF ok THEN "off" ELSE sandbox
  /\ openStreams' = IF ok THEN {} ELSE openStreams
  /\ IF op = "destroy"
       THEN /\ sessionData' = NULL
            /\ storage' = deleteAll
            /\ Did("resume", op, MissingHeader, 200, "success",
                   StopContainerEndEffects \o <<"storage.deleteAll", "log:session_destroyed">>)
     ELSE /\ sessionData' = Stopped(sessionData)
          /\ storage' = saveSession(Stopped(sessionData))
          /\ IF op = "idle"
               THEN Did("timer", op, MissingHeader, 0, "", StopContainerEndEffects)
             ELSE IF sessionData = NULL
               THEN \* handleStop line 158 dereferences null
                    Did("resume", op, MissingHeader, 500, "exception", <<"throw:TypeError">>)
             ELSE Did("resume", op, MissingHeader, 200, "stopped", StopContainerEndEffects)
  /\ UNCHANGED <<activeWebSockets, idleCheckInterval, intervals, hasContainer, now>>

\* ------------------------------------------------------ handleWebSocket
\* A refresh that moves createdAt along with lastSeen.
updateLastSeenAndCreatedAt(rec) ==
  IF rec # NULL THEN [rec EXCEPT !.lastSeen = now, !.createdAt = now] ELSE rec

updateLastSeen(rec) == IF rec # NULL THEN [rec EXCEPT !.lastSeen = now] ELSE rec

\* A guard that refuses only a stopped session, where the code refuses every
\* status but running.
SessionNotRunningOnlyStopped(rec) == rec.status = "stopped" \/ ~hasContainer

\* The guard of line 197.
SessionNotRunning(rec) == rec.status # "running" \/ ~hasContainer

handleWebSocket(h, upgrade) ==
  /\ Admitted(h)
  /\ IF sessionData = NULL
       THEN /\ Did("fetch", "ws", h, 404, "Session not found", <<>>)
            /\ UNCHANGED awaiting
     ELSE IF SessionNotRunning(sessionData)
       THEN /\ Did("fetch", "ws", h, 400, "Session not running", <<>>)
            /\ UNCHANGED awaiting
     ELSE IF ~upgrade
       THEN /\ Did("fetch", "ws", h, 426, "Expected WebSocket", <<>>)
            /\ UNCHANGED awaiting
     ELSE /\ Inflight < MaxInflight
          /\ Suspend("ws")
          /\ Did("fetch", "ws", h, 0, "", <<"getTcpPort.fetch">>)
  /\ UNCHANGED <<sessionData, storage, activeWebSockets, idleCheckInterval, intervals,
                 hasContainer, sandbox, openStreams, now>>

\* handleWebSocket after the fetch on the container port: it answered with a
\* WebSocket ("websocket"), without one ("plain"), or threw ("throw").
webSocketResume(outcome) ==
  /\ awaiting["ws"] > 0
  /\ Resume("ws")
  /\ outcome = "websocket" => sandbox = "on"
  /\ IF outcome = "plain"
       THEN /\ Did("resume", "ws", MissingHeader, 500, "Failed to establish WebSocket connection", <<>>)
            /\ UNCHANGED <<sessionData, openStreams>>
     ELSE IF sessionData = NULL
       THEN \* log(..., this.sessionData.sessionId, ...) dereferences null, in the
            \* try block and again in the catch block
            /\ Did("resume", "ws", MissingHeader, 500, "exception", <<"throw:TypeError">>)
            /\ UNCHANGED <<sessionData, openStreams>>
     ELSE IF outcome = "websocket"
       THEN /\ Cardinality(openStreams) < MaxStreams
            /\ sessionData' = updateLastSeen(sessionData)
            /\ openStreams' = openStreams \cup {FreshStream}
            /\ Did("resume", "ws", MissingHeader, 101, "websocket", <<"log:websocket_connected">>)
     ELSE /\ Did("resume", "ws", MissingHeader, 500, "WebSocket error", <<"log:error">>)
          /\ UNCHANGED <<sessionData, openStreams>>
  /\ UNCHANGED <<storage, activeWebSockets, idleCheckInterval, intervals, hasContainer,
                 sandbox, now>>

\* A handed-out stream closes (either end); the close listener of line 230 runs.
streamClose(s) ==
  /\ s \in openStreams
  /\ openStreams' = openStreams \ {s}
  /\ IF sessionData = NULL
       THEN Did("close", "ws", MissingHeader, 0, "", <<"throw:TypeError">>)
       ELSE Did("close", "ws", MissingHeader, 0, "", <<"log:websocket_disconnected">>)
  /\ UNCHANGED <<sessionData, storage, activeWebSockets, idleCheckInterval, intervals,
                 hasContainer, sandbox, awaiting, now>>

\* ----------------------------------------------------------- idle check
\* The setInterval callback of startIdleCheck, lines 290-299, for live timer t.
\* lines 295-296: idleTime > idleTimeout.
IdleExpiredInverted(rec) == now - rec.lastSeen < IdleTimeout

IdleExpired(rec) == now - rec.lastSeen > IdleTimeout

idleCheck(t) ==
  /\ t \in intervals
  /\ IF sessionData = NULL
       THEN /\ Did("timer", "idle", MissingHeader, 0, "", <<>>)
            /\ UNCHANGED <<sessionData, storage, awaiting, activeWebSockets,
                           idleCheckInterval, intervals, openStreams>>
     ELSE IF sessionData.status # "running" \/ ~IdleExpired(sessionData)
       THEN /\ Did("timer", "idle", MissingHeader, 0, "", <<>>)
            /\ UNCHANGED <<sessionData, storage, awaiting, activeWebSockets,
                           idleCheckInterval, intervals, openStreams>>
     ELSE /\ StopContainerBegin
          /\ IF hasContainer
               THEN /\ Inflight < MaxInflight
                    /\ Suspend("idle")
                    /\ Did("timer", "idle", MissingHeader, 0, "", StopContainerBeginEffects)
                    /\ UNCHANGED <<sessionData, storage>>
               ELSE /\ sessionData' = Stopped(sessionData)
                    /\ storage' = saveSession(Stopped(sessionData))
                    /\ Did("timer", "idle", MissingHeader, 0, "",
                           StopContainerBeginEffects \o StopContainerEndEffects)
                    /\ UNCHANGED awaiting
  /\ UNCHANGED <<hasContainer, sandbox, now>>

\* ---------------------------------------------------------- environment
\* Date.now() advances.
Tick ==
  /\ now < MaxTime
  /\ now' = now + 1
  /\ Did("tick", "", MissingHeader, 0, "", <<>>)
  /\ UNCHANGED <<sessionData, storage, activeWebSockets, idleCheckInterval, intervals,
                 hasContainer, sandbox, openStreams, awaiting>>

\* A constructor that does not read the store.
loadSessionNothing == NULL

\* The load in the constructor, line 16: storage.get("session") || null.
loadSession == storage

\* The instance is evicted and constructed again (constructor, lines 12-18):
\* the fields take their initial values, the record is loaded from storage,
\* and the handlers, timers and connections of the old instance are gone.
Restart ==
  /\ sessionData' = loadSession
  /\ activeWebSockets' = {}
  /\ idleCheckInterval' = NoInterval
  /\ intervals' = {}
  /\ openStreams' = {}
  /\ awaiting' = [op \in AwaitOps |-> 0]
  /\ Did("restart", "", MissingHeader, 0, "", <<"storage.get">>)
  /\ UNCHANGED <<storage, hasContainer, sandbox, now>>

Next ==
  \/ \E h \in Headers : FetchForbidden(h)
  \/ \E h \in Headers : FetchNotFound(h)
  \/ \E h \in Headers, sid \in SessionIdHeaders : handleCreate(h, sid)
  \/ \E h \in Headers : handleStatus(h)
  \/ \E h \in Headers : handleStart(h)
  \/ \E outcome \in {"ok"} \cup StartErrors : startResume(outcome)
  \/ \E h \in Headers : handleStop(h)
  \/ \E h \in Headers : handleDestroy(h)
  \/ \E op \in {"stop", "destroy", "idle"}, ok \in BOOLEAN : stopContainerResume(op, ok)
  \/ \E h \in Headers, upgrade \in BOOLEAN : handleWebSocket(h, upgrade)
  \/ \E outcome \in {"websocket", "plain", "throw"} : webSocketResume(outcome)
  \/ \E s \in 1..MaxStreams : streamClose(s)
  \/ \E t \in 1..MaxIntervals : idleCheck(t)
  \/ Tick
  \/ Restart

Spec == Init /\ [][Next]_vars

\* ------------------------------------------------- the quiet environment
\* From some point on the environment sends no request, closes no stream and
\* does not restart the instance; sandbox calls in flight return, timers fire
\* and the clock advances.
GoQuiet ==
  /\ ~noMoreRequests
  /\ noMoreRequests' = TRUE
  /\ last' = [act |-> "quiet", op |-> "", caller |-> MissingHeader, code |-> 0, body |-> ""]
  /\ effects' = <<>>
  /\ UNCHANGED <<sessionData, storage, activeWebSockets, idleCheckInterval, intervals,
                 hasContainer, sandbox, openStreams, awaiting, now>>
  /\ UNCHANGED workerVars

NextIdle ==
  \/ ~noMoreRequests /\ \E h \in Headers : FetchForbidden(h)
  \/ ~noMoreRequests /\ \E h \in Headers : FetchNotFound(h)
  \/ ~noMoreRequests /\ \E h \in Headers, sid \in SessionIdHeaders : handleCreate(h, sid)
  \/ ~noMoreRequests /\ \E h \in Headers : handleStatus(h)
  \/ ~noMoreRequests /\ \E h \in Headers : handleStart(h)
  \/ \E outcome \in {"ok"} \cup StartErrors : startResume(outcome)
  \/ ~noMoreRequests /\ \E h \in Headers : handleStop(h)
  \/ ~noMoreRequests /\ \E h \in Headers : handleDestroy(h)
  \/ \E op \in {"stop", "destroy", "idle"}, ok \in BOOLEAN : stopContainerResume(op, ok)
  \/ ~noMoreRequests /\ \E h \in Headers, upgrade \in BOOLEAN : handleWebSocket(h, upgrade)
  \/ \E outcome \in {"websocket", "plain", "throw"} : webSocketResume(outcome)
  \/ ~noMoreRequests /\ \E s \in 1..MaxStreams : streamClose(s)
  \/ \E t \in 1..MaxIntervals : idleCheck(t)
  \/ Tick
  \/ ~noMoreRequests /\ Restart
  \/ GoQuiet

\* Every live timer fires again and again, and every sandbox call returns.
IdleFairness ==
  /\ \A t \in 1..MaxIntervals : WF_vars(idleCheck(t))
  /\ WF_vars(\E ok \in BOOLEAN : stopContainerResume("idle", ok))
  /\ WF_vars(\E ok \in BOOLEAN : stopContainerResume("stop", ok))
  /\ WF_vars(\E ok \in BOOLEAN : stopContainerResume("destroy", ok))
  /\ WF_vars(\E outcome \in {"ok"} \cup StartErrors : startResume(outcome))
  /\ WF_vars(\E outcome \in {"websocket", "plain", "throw"} : webSocketResume(outcome))

SpecIdle == Init /\ [][NextIdle]_vars /\ IdleFairness

\* ------------------------------------------------------------ the worker
\* The stateless worker of src/src/worker.ts (lines 1-242) in front of the
\* objects.  Requests to the worker run concurrently and give up control at
\* every await on the KV index or on an object; one action below is one
\* awaited operation together with the code that follows it up to the next
\* await.  The reads of getSessionsForOwner's loop are taken together.  An
\* object is seen from outside: its record is [owner, status] and one request
\* to it is one step, the container call inside included.  The KV index is
\* taken to be strongly consistent.
WDid(op, identity, code, body) ==
  /\ last' = [act |-> "worker", op |-> op, caller |-> IdentityHeader(identity),
              code |-> code, body |-> body]
  /\ effects' = <<>>
  /\ UNCHANGED controllerVars

\* crypto.randomUUID(), line 103: a value no call has drawn yet.
NextUuid == 1 + Cardinality({c \in CallIds : calls[c].sessionId # 0})

\* SessionListItem as indexSession writes it, lines 217-223.
IndexEntry(sessionId, owner, status) ==
  [sessionId |-> sessionId, owner |-> owner, status |-> status]

\* getSessionsForOwner, lines 192-199: the entries found for a list of ids.
EntriesOf(sessionIds) == {SESSION_INDEX.session[s] : s \in sessionIds} \ {NULL}

\* handleCreateSession, lines 91-93: the sessions that count towards the quota.
CountsTowardsQuota(entry) == entry.status # "stopped" /\ entry.status # "error"

\* KaliSession.isAuthorized for the record of one object.
isAuthorizedFor(rec, identity) ==
  IF rec = NULL THEN TRUE
  ELSE IF rec.owner = getOwnerIdentifier(identity) THEN TRUE
  ELSE isAdmin(identity, ADMIN_GROUP)

\* One request to an object through its stub: the status code of the response
\* and the record afterwards.  started says whether container.start succeeds.
objectFetch(rec, path, identity, started) ==
  IF ~isAuthorizedFor(rec, identity) THEN [code |-> 403, rec |-> rec]
  ELSE IF rec = NULL THEN [code |-> 404, rec |-> rec]
  ELSE IF path = "/start"
    THEN IF rec.status = "running" THEN [code |-> 200, rec |-> rec]
         ELSE IF started THEN [code |-> 200, rec |-> [rec EXCEPT !.status = "running"]]
         ELSE [code |-> 500, rec |-> [rec EXCEPT !.status = "error"]]
  ELSE IF path = "/stop"
    THEN [code |-> 200, rec |-> [rec EXCEPT !.status = "stopped"]]
  ELSE IF path = "/destroy"
    THEN [code |-> 200, rec |-> NULL]
  ELSE [code |-> 200, rec |-> rec]

\* fetch, lines 36-39: no Cloudflare Access identity on the request.
workerForbidden ==
  /\ last' = [act |-> "worker", op |-> AnyOp, caller |-> MissingHeader, code |-> 403,
              body |-> ""]
  /\ effects' = <<>>
  /\ UNCHANGED controllerVars
  /\ UNCHANGED workerVars

\* handleCreateSession from line 103: a new id, the object created through its
\* stub (it has no record, so /create answers 200), then on to indexSession.
createObject(c, identity) ==
  /\ KALI_SESSION' = [KALI_SESSION EXCEPT
                        ![NextUuid] = [owner |-> getOwnerIdentifier(identity),
                                       status |-> "created"]]
  /\ calls' = [calls EXCEPT ![c] = [pc |-> "index", identity |-> identity,
                                    sessionIds |-> {}, sessionId |-> NextUuid]]
  /\ WDid("create", identity, 0, "")
  /\ UNCHANGED SESSION_INDEX

\* POST /api/sessions: handleCreateSession up to its first await.  An admin
\* skips the quota check; anyone else reads the owner's list of ids (line 190).
handleCreateSession(c, identity) ==
  /\ calls[c] = FreeCall
  /\ IF c = 1 THEN TRUE ELSE calls[c - 1] # FreeCall
  /\ IF isAdmin(identity, ADMIN_GROUP)
       THEN createObject(c, identity)
       ELSE /\ calls' = [calls EXCEPT
                           ![c] = [pc |-> "entries", identity |-> identity,
                                   sessionIds |->
                                     SESSION_INDEX.owner[getOwnerIdentifier(identity)],
                                   sessionId |-> 0]]
            /\ WDid("create", identity, 0, "")
            /\ UNCHANGED <<SESSION_INDEX, KALI_SESSION>>

\* getSessionsForOwner lines 192-199 and the quota check, lines 91-100: over
\* the limit the request is answered 429, otherwise the object is created.
checkQuota(c) ==
  /\ calls[c].pc = "entries"
  /\ LET runningSessions == {e \in EntriesOf(calls[c].sessionIds) : CountsTowardsQuota(e)}
     IN IF Cardinality(runningSessions) >= MAX_SESSIONS_PER_USER
          THEN /\ calls' = [calls EXCEPT ![c].pc = "done"]
               /\ WDid("create", calls[c].identity, 429, "")
               /\ UNCHANGED <<SESSION_INDEX, KALI_SESSION>>
          ELSE createObject(c, calls[c].identity)

\* indexSession, line 225: the entry of the session is written.
indexSessionPut(c) ==
  /\ calls[c].pc = "index"
  /\ SESSION_INDEX' =
       [SESSION_INDEX EXCEPT
          !.session[calls[c].sessionId] =
             IndexEntry(calls[c].sessionId, getOwnerIdentifier(calls[c].identity),
                        "created")]
  /\ calls' = [calls EXCEPT ![c].pc = "owner-get"]
  /\ WDid("create", calls[c].identity, 0, "")
  /\ UNCHANGED KALI_SESSION

\* indexSession, line 228: the owner's list of ids is read.
indexSessionGet(c) ==
  /\ calls[c].pc = "owner-get"
  /\ calls' = [calls EXCEPT
                 ![c].pc = "owner-put",
                 ![c].sessionIds =
                    SESSION_INDEX.owner[getOwnerIdentifier(calls[c].identity)]]
  /\ WDid("create", calls[c].identity, 0, "")
  /\ UNCHANGED <<SESSION_INDEX, KALI_SESSION>>

\* indexSession, lines 229-232, and the return of handleCreateSession.
indexSessionAdd(c) ==
  /\ calls[c].pc = "owner-put"
  /\ SESSION_INDEX' =
       [SESSION_INDEX EXCEPT
          !.owner[getOwnerIdentifier(calls[c].identity)] =
             calls[c].sessionIds \cup {calls[c].sessionId}]
  /\ calls' = [calls EXCEPT ![c].pc = "done"]
  /\ WDid("create", calls[c].identity, 200, "")
  /\ UNCHANGED KALI_SESSION

\* GET /api/sessions, lines 123-140: an admin gets every entry, anyone else
\* the entries of their own list.
handleListSessions(identity) ==
  /\ WDid("list", identity, 200,
          IF isAdmin(identity, ADMIN_GROUP)
            THEN EntriesOf(SessionIds)
            ELSE EntriesOf(SESSION_INDEX.owner[getOwnerIdentifier(identity)]))
  /\ UNCHANGED workerVars

\* routeToDurableObject, lines 142-186, for /start, /stop, /destroy and
\* /status: the request is forwarded and the response returned as it is.  The
\* index is neither read nor written.
routeToDurableObject(s, path, identity, started) ==
  /\ LET r == objectFetch(KALI_SESSION[s], path, identity, started)
     IN /\ KALI_SESSION' = [KALI_SESSION EXCEPT ![s] = r.rec]
        /\ WDid(path, identity, r.code, "")
  /\ UNCHANGED <<SESSION_INDEX, calls>>

\* The idle timer of an object stops its session (durable-object.ts 287-300).
idleStop(s) ==
  /\ KALI_SESSION[s] # NULL
  /\ KALI_SESSION[s].status = "running"
  /\ KALI_SESSION' = [KALI_SESSION EXCEPT ![s].status = "stopped"]
  /\ last' = [act |-> "timer", op |-> "idle", caller |-> MissingHeader, code |-> 0,
              body |-> ""]
  /\ effects' = <<>>
  /\ UNCHANGED controllerVars
  /\ UNCHANGED <<SESSION_INDEX, calls>>

NextWorker ==
  \/ workerForbidden
  \/ \E c \in CallIds, i \in WorkerIdentities : handleCreateSession(c, i)
  \/ \E c \in CallIds : checkQuota(c)
  \/ \E c \in CallIds : indexSessionPut(c)
  \/ \E c \in CallIds : indexSessionGet(c)
  \/ \E c \in CallIds : indexSessionAdd(c)
  \/ \E i \in WorkerIdentities : handleListSessions(i)
  \/ \E s \in SessionIds, path \in {"/start", "/stop", "/destroy", "/status"},
        i \in WorkerIdentities, started \in BOOLEAN :
          routeToDurableObject(s, path, i, started)
  \/ \E s \in SessionIds : idleStop(s)

\* A request the worker has begun runs to its end: every awaited operation
\* on the index returns.
WorkerFairness ==
  /\ WF_vars(\E c \in CallIds : checkQuota(c))
  /\ WF_vars(\E c \in CallIds : indexSessionPut(c))
  /\ WF_vars(\E c \in CallIds : indexSessionGet(c))
  /\ WF_vars(\E c \in CallIds : indexSessionAdd(c))

\* The worker is deployed with the container binding in place.
InitWorker == Init /\ hasContainer

SpecWorker == InitWorker /\ [][NextWorker]_vars /\ WorkerFairness

\* =============================================================== claims
Has(eff, tag) == \E i \in 1..Len(eff) : eff[i] = tag

\* The caller of the step is a parsed identity that is neither the record's
\* owner nor a member of the admin group.
Stranger(h, rec) ==
  /\ h.kind = "json"
  /\ h.identity.email # rec.owner
  /\ ADMIN_GROUP \notin h.identity.groups

\* The caller of the step is the record's owner or a member of the admin group.
OwnerOrAdmin(h, rec) ==
  /\ h.kind = "json"
  /\ (h.identity.email = rec.owner \/ ADMIN_GROUP \in h.identity.groups)

\* C1: while a record exists, a request by a caller who is neither its owner nor
\* in the admin group is answered 403 Forbidden, whatever the operation, and
\* the step changes neither the record, the store, the sandbox, the idle timer,
\* the open streams nor the suspended handlers, and makes no call.
C1_StrangerForbidden ==
  [][(/\ last'.act = "fetch"
      /\ sessionData # NULL
      /\ Stranger(last'.caller, sessionData))
     => (/\ last'.code = 403
         /\ effects' = <<>>
         /\ UNCHANGED <<sessionData, storage, sandbox, idleCheckInterval, intervals,
                        openStreams, activeWebSockets, awaiting>>)]_vars

\* A stranger was just refused on a running session with a stream open.
C1_Witness ==
  /\ last.act = "fetch" /\ last.code = 403
  /\ sessionData # NULL /\ sessionData.status = "running"
  /\ Stranger(last.caller, sessionData)
  /\ openStreams # {}

\* C2: at most one state-mutating operation (Start, Stop, Destroy, the idle
\* timer's stop; Create never suspends) is between its first and its last step.
C2_OneMutationAtATime ==
  awaiting["start"] + awaiting["stop"] + awaiting["destroy"] + awaiting["idle"] <= 1

\* C3: every change of the record's status is an edge of the transition graph:
\* absent to created, created to starting, stopped to starting, starting to
\* running, starting to error, running to stopped, or the removal of the record.
Edges ==
  {<<"created", "starting">>, <<"stopped", "starting">>, <<"starting", "running">>,
   <<"starting", "error">>, <<"running", "stopped">>}

\* A Start without a sandbox binding writes starting and then error in one step.
ThroughStarting ==
  /\ last'.act = "fetch" /\ last'.op = "start" /\ ~hasContainer
  /\ <<sessionData.status, "starting">> \in Edges
  /\ sessionData'.status = "error"

C3_TransitionGraph ==
  [][\/ sessionData' = NULL
     \/ sessionData = NULL /\ sessionData'.status = "created"
     \/ /\ sessionData # NULL
        /\ \/ sessionData'.status = sessionData.status
           \/ <<sessionData.status, sessionData'.status>> \in Edges
           \/ ThroughStarting]_vars

\* C4: when a Stop or a Destroy has returned success, no client stream is open
\* and no idle timer is armed.
C4_QuiesceClosesAll ==
  (last.act \in {"fetch", "resume"} /\ last.op \in {"stop", "destroy"} /\ last.code = 200)
    => (openStreams = {} /\ idleCheckInterval = NoInterval /\ intervals = {})

\* The streams half of C4 alone, and a reachable state that breaks it.
StreamLeftOpen ==
  /\ last.act = "resume" /\ last.op = "stop" /\ last.code = 200
  /\ openStreams # {}

\* C5: once the environment is quiet (no request, no restart, no handler
\* suspended), a running session whose idle time exceeds the threshold and whose
\* timer is live is stopped by the timer, which logs session_stopped.
Quiescent == noMoreRequests /\ Inflight = 0

IdleRunning ==
  /\ sessionData # NULL
  /\ sessionData.status = "running"
  /\ now - sessionData.lastSeen > IdleTimeout

StoppedByTimer ==
  /\ sessionData # NULL
  /\ sessionData.status = "stopped"
  /\ storage = sessionData
  /\ last.act = "timer"
  /\ Has(effects, "log:session_stopped")

C5_IdleAutoStop == (Quiescent /\ IdleRunning /\ intervals # {}) ~> StoppedByTimer

\* The timer has stopped a session in a quiet environment.
C5_Witness == noMoreRequests /\ StoppedByTimer /\ sandbox = "off"

\* C6: when a Start has returned a failure, the record has status error and an
\* errorMessage equal to the cause, the store holds that record, an error event
\* was logged, and no idle timer is armed.
C6_StartFailure ==
  (last.op = "start" /\ last.code = 500)
    => (/\ sessionData # NULL
        /\ sessionData.status = "error"
        /\ sessionData.errorMessage = last.body
        /\ storage = sessionData
        /\ Has(effects, "log:error")
        /\ idleCheckInterval = NoInterval
        /\ intervals = {})

\* C7: a Create by the owner or an admin while a record exists is answered 409
\* Conflict, leaves the record and the store as they were and logs no
\* session_created.
C7_CreateConflict ==
  [][(/\ last'.act = "fetch" /\ last'.op = "create"
      /\ sessionData # NULL
      /\ OwnerOrAdmin(last'.caller, sessionData))
     => (/\ last'.code = 409
         /\ sessionData' = sessionData
         /\ storage' = storage
         /\ ~Has(effects', "log:session_created"))]_vars

\* A second Create was just refused on a running session.
C7_Witness ==
  /\ last.act = "fetch" /\ last.op = "create" /\ last.code = 409
  /\ sessionData # NULL /\ sessionData.status = "running"
  /\ OwnerOrAdmin(last.caller, sessionData)

\* C8: with no record, Start, Stop, Destroy, Status and OpenStream by any
\* identified caller are answered 404, and the step creates no record in memory
\* or in the store, calls nothing on the sandbox and arms no timer.
C8_NotFound ==
  [][(/\ last'.act = "fetch"
      /\ last'.op \in {"start", "stop", "destroy", "status", "ws"}
      /\ sessionData = NULL)
     => (/\ last'.code = 404
         /\ sessionData' = NULL
         /\ storage' = storage
         /\ effects' = <<>>
         /\ UNCHANGED <<sandbox, idleCheckInterval, intervals, awaiting>>)]_vars

\* A Start was just answered 404 after the record had been destroyed while the
\* sandbox was left on.
C8_Witness ==
  /\ last.act = "fetch" /\ last.op = "start" /\ last.code = 404
  /\ sessionData = NULL /\ storage = NULL
  /\ sandbox = "on"

\* C9: a Start on a running session answers status running, does not call
\* sandbox start, changes neither record nor store, and arms no timer.
C9_StartIdempotent ==
  [][(/\ last'.act = "fetch" /\ last'.op = "start"
      /\ sessionData # NULL /\ sessionData.status = "running")
     => (/\ last'.code = 200 /\ last'.body = "running"
         /\ ~Has(effects', StartCall)
         /\ ~Has(effects', "setInterval")
         /\ UNCHANGED <<sessionData, storage, sandbox, idleCheckInterval, intervals,
                        awaiting>>)]_vars

\* A Start was just answered at once on a running session with its timer armed.
C9_Witness ==
  /\ last.act = "fetch" /\ last.op = "start" /\ last.code = 200
  /\ sessionData # NULL /\ sessionData.status = "running"
  /\ idleCheckInterval # NoInterval

\* C10: a Stop on a stopped session answers status stopped, does not call
\* sandbox destroy, changes neither record nor store, and logs no
\* session_stopped.
C10_StopIdempotent ==
  [][(/\ last'.act = "fetch" /\ last'.op = "stop"
      /\ sessionData # NULL /\ sessionData.status = "stopped")
     => (/\ last'.code = 200 /\ last'.body = "stopped"
         /\ ~Has(effects', "container.destroy")
         /\ ~Has(effects', "log:session_stopped")
         /\ UNCHANGED <<sessionData, storage, sandbox, awaiting>>)]_vars

\* A Stop was just answered at once on a stopped session.
C10_Witness ==
  /\ last.act = "fetch" /\ last.op = "stop" /\ last.code = 200
  /\ sessionData # NULL /\ sessionData.status = "stopped"
  /\ effects = <<>>
\* C11: a stream request on a record whose status is not running (created,
\* starting, stopped or error) is answered 400 "Session not running" in the
\* step that receives it: nothing is fetched from the container port, no
\* handler is left waiting, the record (lastSeen included) and the store are
\* unchanged and no websocket_connected event is logged.  Conversely the
\* container port is only ever contacted by a request that found the record
\* running.
C11_StreamOnlyWhenRunning ==
  [][(last'.act = "fetch" /\ last'.op = "ws" /\ sessionData # NULL)
     => /\ sessionData.status # "running"
             => /\ last'.code = 400 /\ last'.body = "Session not running"
                /\ effects' = <<>>
                /\ UNCHANGED <<sessionData, storage, sandbox, openStreams,
                               activeWebSockets, awaiting>>
        /\ Has(effects', "getTcpPort.fetch") => sessionData.status = "running"]_vars

\* A stream request was refused on a record that is created, starting,
\* stopped or in error.
C11_Witness ==
  /\ last.act = "fetch" /\ last.op = "ws" /\ last.code = 400
  /\ sessionData # NULL
  /\ sessionData.status \in {"created", "starting", "stopped", "error"}

\* There is no record, in memory or in storage.
Absent == sessionData = NULL /\ storage = NULL

\* C12: a Destroy that returned 200 left the record absent in memory and in
\* storage; while it is absent, Status, Start, Stop, Destroy and a stream
\* request by an identified caller are answered 404 and change nothing; and
\* the only step that ends the absence is a Create answered 200.
C12_DestroyedUntilCreate ==
  [][/\ (last'.op = "destroy" /\ last'.code = 200) => Absent'
     /\ Absent => \/ Absent'
                  \/ last'.act = "fetch" /\ last'.op = "create" /\ last'.code = 200
     /\ (/\ Absent /\ last'.act = "fetch" /\ last'.caller.kind = "json"
         /\ last'.op \in {"status", "start", "stop", "destroy", "ws"})
        => /\ last'.code = 404
           /\ Absent'
           /\ effects' = <<>>]_vars

\* A Destroy that waited for the container was answered 200 and the record
\* is gone from memory and from storage.
C12_Witness ==
  /\ last.act = "resume" /\ last.op = "destroy" /\ last.code = 200
  /\ Absent

\* C13: once the store holds no record (a Destroy completed, or none was
\* ever created) the only step that puts one there is a Create answered 200:
\* a Start, a Stop or a timer callback that was suspended across the Destroy
\* writes nothing when it resumes.
C13_NoRecordOutlivesDeletion ==
  [][(storage = NULL /\ storage' # NULL)
     => (last'.act = "fetch" /\ last'.op = "create" /\ last'.code = 200)]_vars

\* A Start or a Stop that was suspended while a Destroy completed has
\* resumed, and the store is still empty.
C13_Witness ==
  /\ last.act = "resume" /\ last.op \in {"start", "stop"}
  /\ sessionData = NULL
  /\ storage = NULL

\* C14: a restart leaves in memory exactly the record that is in storage,
\* with no handler of the old instance left and no client stream open, and
\* it does so in the one step that constructs the instance, before any
\* request; and Status answers with the sessionId, owner, status, createdAt
\* and lastSeen of the record in memory.  So a Status that follows a restart
\* returns the persisted values.
C14_RestartLoadsPersisted ==
  [][/\ last'.act = "restart"
        => /\ sessionData' = storage /\ storage' = storage
           /\ openStreams' = {} /\ activeWebSockets' = {}
           /\ \A op \in AwaitOps : awaiting'[op] = 0
     /\ (/\ last'.act = "fetch" /\ last'.op = "status" /\ last'.code = 200)
        => /\ sessionData # NULL
           /\ last'.body = StatusBody(sessionData)
           /\ last.act = "restart" => last'.body = StatusBody(storage)]_vars

\* A restart has just loaded a running record from storage, some time after
\* that record was last written.
C14_Witness ==
  /\ last.act = "restart"
  /\ sessionData # NULL /\ sessionData = storage
  /\ sessionData.status = "running"
  /\ now > sessionData.lastSeen

\* The reference decision: allow when there is no record, else allow the
\* owner, else allow a member of the admin group, else deny.
Allow(identity, rec) ==
  \/ rec = NULL
  \/ identity.email = rec.owner
  \/ ADMIN_GROUP \in identity.groups

\* C15: the authorization decision is the reference function of the caller
\* and the record.  A request with an identity is answered 403 exactly when
\* the reference function denies it, the refusal leaves the record and the
\* store as they were, and isAuthorized agrees with the reference function
\* for every identity in every state.
C15_AuthorizationDecision ==
  [][(last'.act = "fetch" /\ last'.caller.kind = "json")
     => /\ (last'.code = 403) <=> ~Allow(last'.caller.identity, sessionData)
        /\ (last'.code = 403) => UNCHANGED <<sessionData, storage>>
        /\ \A i \in Identities : isAuthorized(i) <=> Allow(i, sessionData)]_vars

\* A member of the admin group who is not the owner was let through to the
\* Status handler.
C15_Witness ==
  /\ last.act = "fetch" /\ last.op = "status" /\ last.code = 200
  /\ last.caller.kind = "json"
  /\ last.caller.identity.email # sessionData.owner
  /\ ADMIN_GROUP \in last.caller.identity.groups

\* C16: a request whose X-Identity header is missing or is not JSON is
\* answered 403 before any handler runs, whether or not a record exists and
\* whatever its status: the step makes no call, logs nothing, suspends
\* nothing and changes neither the record, the store, the sandbox, the idle
\* timer nor the streams.
C16_NoIdentityForbidden ==
  [][(last'.act = "fetch" /\ last'.caller.kind # "json")
     => (/\ last'.code = 403
         /\ effects' = <<>>
         /\ UNCHANGED <<sessionData, storage, sandbox, idleCheckInterval, intervals,
                        openStreams, activeWebSockets, awaiting>>)]_vars

\* A request without a usable identity was refused while no record exists,
\* where an identified caller would have been let through.
C16_Witness ==
  /\ last.act = "fetch" /\ last.caller.kind # "json" /\ last.code = 403
  /\ sessionData = NULL

\* The record goes from not running (or absent) to running in this step.
BecomesRunning ==
  /\ sessionData' # NULL
  /\ sessionData'.status = "running"
  /\ IF sessionData = NULL THEN TRUE ELSE sessionData.status # "running"

\* C17: a Start on a record that is not running first writes starting and
\* persists it, then calls the container's start with outbound network
\* enabled, and stops there: the sandbox, the timer and lastSeen are not
\* touched in that step.  The record becomes running, or a session_started
\* event is logged, only in the continuation of a Start whose container call
\* returned: that step leaves the sandbox on, sets running and lastSeen to the
\* current time, persists the record, arms a new idle timer and logs
\* session_started, in that order.
C17_StartOrder ==
  [][/\ (/\ last'.act = "fetch" /\ last'.op = "start"
         /\ sessionData # NULL /\ sessionData.status # "running" /\ hasContainer)
        => /\ sessionData' = [sessionData EXCEPT !.status = "starting"]
           /\ storage' = sessionData'
           /\ effects' = <<"storage.put", StartCall>>
           /\ awaiting'["start"] = awaiting["start"] + 1
           /\ UNCHANGED <<sandbox, idleCheckInterval, intervals>>
     /\ (BecomesRunning \/ Has(effects', "log:session_started")
           \/ (last'.act = "resume" /\ last'.op = "start" /\ last'.code = 200))
        => /\ last'.act = "resume" /\ last'.op = "start" /\ last'.code = 200
           /\ awaiting["start"] > 0
           /\ sandbox' = "on"
           /\ sessionData # NULL
           /\ sessionData' = [sessionData EXCEPT !.status = "running", !.lastSeen = now]
           /\ storage' = sessionData'
           /\ idleCheckInterval' \in intervals' \ intervals
           /\ effects' = <<"storage.put", "setInterval", "log:session_started">>]_vars

\* A Start has completed some time after the record was created: the record
\* is running, persisted, its lastSeen is the current time and the timer is
\* armed.
C17_Witness ==
  /\ last.act = "resume" /\ last.op = "start" /\ last.code = 200
  /\ sessionData # NULL /\ sessionData.status = "running"
  /\ sessionData.lastSeen = now /\ now > sessionData.createdAt
  /\ storage = sessionData
  /\ idleCheckInterval # NoInterval

\* p is a prefix of s.
IsPrefix(p, s) == Len(p) <= Len(s) /\ SubSeq(s, 1, Len(p)) = p

\* The calls of a quiesce before it reaches the container: disarm the timer
\* if one is armed, then close each registered stream.
QuiesceHead ==
  (IF idleCheckInterval # NoInterval THEN <<"clearInterval">> ELSE <<>>)
  \o [i \in 1..Cardinality(activeWebSockets) |-> "ws.close"]

\* The step writes a record with status stopped to the store.
PersistsStopped ==
  /\ storage' # NULL
  /\ storage' # storage
  /\ storage'.status = "stopped"

\* C20 as stated: whenever stopped is persisted and session_stopped logged,
\* container.destroy() was called in an earlier step and has returned.
C20_DestroyAlwaysAttempted ==
  [][Has(effects', "log:session_stopped")
     => (last'.act \in {"resume", "timer"} /\ awaiting[last'.op] > 0)]_vars

\* C20, with a container bound: a quiesce disarms the idle timer, closes the
\* registered streams, calls container.destroy() and waits, all before the
\* record or the store is touched; stopped is persisted and session_stopped
\* logged, in that order, only in the continuation of such a call.  With no
\* container bound the destroy call is skipped and the same sequence runs in
\* one step.  The store receives status stopped from no other step.
C20_QuiesceOrder ==
  [][/\ Has(effects', "container.destroy")
        => /\ hasContainer
           /\ effects' = QuiesceHead \o <<"container.destroy">>
           /\ idleCheckInterval' = NoInterval
           /\ activeWebSockets' = {}
           /\ UNCHANGED <<sessionData, storage>>
           /\ awaiting'[last'.op] = awaiting[last'.op] + 1
     /\ Has(effects', "log:session_stopped")
        => /\ sessionData # NULL
           /\ IF hasContainer
                THEN /\ last'.act \in {"resume", "timer"}
                     /\ awaiting[last'.op] > 0
                     /\ awaiting'[last'.op] = awaiting[last'.op] - 1
                     /\ IsPrefix(<<"storage.put", "log:session_stopped">>, effects')
                ELSE /\ IsPrefix(QuiesceHead \o <<"storage.put", "log:session_stopped">>,
                                 effects')
                     /\ idleCheckInterval' = NoInterval
                     /\ activeWebSockets' = {}
           /\ last'.op # "destroy"
                => (sessionData'.status = "stopped" /\ storage' = sessionData')
     /\ PersistsStopped => Has(effects', "log:session_stopped")]_vars

\* A Stop that waited for container.destroy() has completed on a session
\* whose idle timer had been armed: the record is stopped and persisted, the
\* timer is disarmed and the sandbox is off.
C20_Witness ==
  /\ last.act = "resume" /\ last.op = "stop" /\ last.code = 200
  /\ effects = <<"storage.put", "log:session_stopped">>
  /\ sessionData # NULL /\ sessionData.status = "stopped" /\ storage = sessionData
  /\ idleCheckInterval = NoInterval /\ sandbox = "off"
  /\ sessionData.lastSeen > sessionData.createdAt

\* The sessions of an owner that exist and are neither stopped nor in error.
ActiveSessions(owner) ==
  {s \in SessionIds : /\ KALI_SESSION[s] # NULL
                      /\ KALI_SESSION[s].owner = owner
                      /\ CountsTowardsQuota(KALI_SESSION[s])}

\* C18: whatever the interleaving of create requests, an owner who is not an
\* admin never has more than MAX_SESSIONS_PER_USER sessions that exist with
\* a status other than stopped or error.
C18_QuotaHolds ==
  \A i \in WorkerIdentities :
    ~isAdmin(i, ADMIN_GROUP)
      => Cardinality(ActiveSessions(getOwnerIdentifier(i))) <= MAX_SESSIONS_PER_USER

\* The object of session s is stopped and its index entry says otherwise.
Stale(s) ==
  /\ KALI_SESSION[s] # NULL /\ KALI_SESSION[s].status = "stopped"
  /\ SESSION_INDEX.session[s] # NULL /\ SESSION_INDEX.session[s].status # "stopped"

\* Session s has been destroyed and still has an index entry.
Orphan(s) == KALI_SESSION[s] = NULL /\ SESSION_INDEX.session[s] # NULL

\* C19: the index follows the objects: an index entry that disagrees with a
\* stopped session eventually agrees, and the index entry of a destroyed
\* session is eventually removed.
C19_IndexFollows ==
  \A s \in SessionIds : (Stale(s) ~> ~Stale(s)) /\ (Orphan(s) ~> ~Orphan(s))

\* The step is the continuation of a quiesce whose container.destroy() call
\* has returned or thrown.
QuiesceResumed ==
  /\ last'.act \in {"resume", "timer"}
  /\ last'.op \in {"stop", "destroy", "idle"}
  /\ awaiting'[last'.op] = awaiting[last'.op] - 1

\* C21: the continuation of a quiesce does the same whether
\* container.destroy() returned or threw (the sandbox is then left as it
\* was): on an existing record a Stop and an idle-timer stop persist status
\* stopped, a Stop and a Destroy answer 200, a Destroy leaves no record in
\* memory or in storage, and the record never goes to error.
C21_DestroyFailureSwallowed ==
  [][(QuiesceResumed /\ sessionData # NULL)
     => /\ last'.op \in {"stop", "idle"}
             => /\ sessionData' = [sessionData EXCEPT !.status = "stopped"]
                /\ storage' = sessionData'
        /\ last'.op \in {"stop", "destroy"} => last'.code = 200
        /\ last'.op = "destroy" => (sessionData' = NULL /\ storage' = NULL)
        /\ ~Has(effects', "log:error")]_vars

\* A Stop has completed with 200 and status stopped persisted although
\* container.destroy() threw: the sandbox is still on.
C21_Witness ==
  /\ last.act = "resume" /\ last.op = "stop" /\ last.code = 200
  /\ sessionData # NULL /\ sessionData.status = "stopped" /\ storage = sessionData
  /\ sandbox = "on"

\* The record's status becomes error in this step.
EntersError ==
  /\ sessionData' # NULL
  /\ sessionData'.status = "error"
  /\ IF sessionData = NULL THEN TRUE ELSE sessionData.status # "error"

\* C22: every step in which the status becomes error belongs to a Start and
\* finds the record in status starting (a Start without a container binding
\* writes starting and then error in the same step); and a stream request
\* that fails at the container port is answered 500 and leaves the record
\* and the store unchanged.
C22_ErrorOnlyFromStarting ==
  [][/\ EntersError
        => /\ last'.op = "start"
           /\ sessionData # NULL
           /\ \/ sessionData.status = "starting"
              \/ last'.act = "fetch" /\ ~hasContainer
     /\ (last'.act = "resume" /\ last'.op = "ws" /\ last'.code = 500)
        => UNCHANGED <<sessionData, storage>>]_vars

\* C23: a step that answers a Start, a Stop, a Status or a stream request
\* with success on an existing record leaves lastSeen at the current time.
C23_InteractionRefreshesLastSeen ==
  [][(/\ last'.act \in {"fetch", "resume"}
      /\ last'.op \in {"start", "stop", "status", "ws"}
      /\ last'.code \in {200, 101}
      /\ sessionData' # NULL)
     => sessionData'.lastSeen = now']_vars

\* C24: while a record exists its lastSeen is not before its createdAt, in
\* memory and in storage, and no step takes the lastSeen of a record
\* backwards (a record is the same record while its createdAt and sessionId
\* are the same).
C24_LastSeenMonotonic ==
  [][/\ sessionData' # NULL => sessionData'.lastSeen >= sessionData'.createdAt
     /\ storage' # NULL => storage'.lastSeen >= storage'.createdAt
     /\ (/\ sessionData # NULL /\ sessionData' # NULL
         /\ sessionData'.createdAt = sessionData.createdAt
         /\ sessionData'.sessionId = sessionData.sessionId)
        => sessionData'.lastSeen >= sessionData.lastSeen]_vars

\* C25: while a record exists, from the Create that wrote it to the Destroy
\* that deletes it, no step changes its owner, its sessionId or its
\* createdAt, in memory or in storage: not a Start, a Stop, a Status, a
\* stream request, an idle stop, a restart, a Create answered 409, nor any
\* request by an admin who is not the owner.
C25_IdentityFieldsFrozen ==
  [][/\ (sessionData # NULL /\ sessionData' # NULL)
        => /\ sessionData'.owner = sessionData.owner
           /\ sessionData'.sessionId = sessionData.sessionId
           /\ sessionData'.createdAt = sessionData.createdAt
     /\ (storage # NULL /\ storage' # NULL)
        => /\ storage'.owner = storage.owner
           /\ storage'.sessionId = storage.sessionId
           /\ storage'.createdAt = storage.createdAt]_vars

\* An admin who is not the owner has started the session some time after
\* its creation; the record still names its creator and its creation time.
C25_Witness ==
  /\ last.act = "fetch" /\ last.op = "start" /\ last.caller = IdentityHeader(Root)
  /\ sessionData # NULL
  /\ sessionData.owner # Root.email
  /\ sessionData.status = "starting"
  /\ now > sessionData.createdAt

\* C26: in every state the record carries an errorMessage exactly when its
\* status is error, in memory and in storage.
C26_ErrorMessageIffError ==
  /\ sessionData # NULL
       => (sessionData.errorMessage # NoMessage <=> sessionData.status = "error")
  /\ storage # NULL
       => (storage.errorMessage # NoMessage <=> storage.status = "error")

\* C27: in every state a live idle timer implies a record in status running,
\* at most one timer is live, and a live timer is the one the instance holds
\* in idleCheckInterval, so that a Stop or a Destroy can disarm it.
C27_OneTimerOnlyWhenRunning ==
  /\ intervals # {} => (sessionData # NULL /\ sessionData.status = "running")
  /\ Cardinality(intervals) <= 1
  /\ intervals \subseteq {idleCheckInterval}

\* C28: in every state, a sandbox that is running or being started implies a
\* record in status starting or running.
C28_SandboxImpliesRecord ==
  (sandbox = "on" \/ awaiting["start"] > 0)
    => (sessionData # NULL /\ sessionData.status \in {"starting", "running"})

\* C29: Creates delivered together are served one after the other, each in one
\* step.  The one served while no record exists is answered 200 and makes the
\* record with its caller as owner, in memory and in the store; every Create
\* served while a record exists is answered 409, or 403 before its path is
\* looked at, and leaves the record and the store as they were.
C29_OneCreateWins ==
  [][/\ (last'.act = "fetch" /\ last'.op = "create")
          => IF sessionData = NULL
               THEN /\ last'.code = 200
                    /\ sessionData' # NULL
                    /\ sessionData'.owner = last'.caller.identity.email
                    /\ sessionData'.status = "created"
                    /\ storage' = sessionData'
               ELSE /\ last'.code = 409
                    /\ sessionData' = sessionData
                    /\ storage' = storage
     /\ (last'.act = "fetch" /\ last'.code = 403)
          => (sessionData' = sessionData /\ storage' = storage)]_vars

\* A Create by another identity was just refused 409 on a record that the
\* winner's Create made and that nothing has touched since.
C29_Witness ==
  /\ last.act = "fetch" /\ last.op = "create" /\ last.code = 409
  /\ sessionData # NULL /\ sessionData.status = "created"
  /\ sessionData.owner # last.caller.identity.email
  /\ storage = sessionData

IsStarting == sessionData # NULL /\ sessionData.status = "starting"

\* C30: once the environment sends no further request and restarts the
\* instance no more, a record in status starting eventually leaves that status
\* (it becomes running, error or stopped, or it is destroyed), given that every
\* sandbox call returns; restarts before that point are allowed.
C30_StartingIsTransient == (noMoreRequests /\ IsStarting) ~> ~IsStarting

\* The instance holds no live idle timer, as after the constructor has run.
NoTimer == idleCheckInterval = NoInterval /\ intervals = {}

\* C31: once the environment is quiet, a running session whose idle time
\* exceeds the threshold on an instance that was constructed again since the
\* session started, and so holds no timer, is eventually stopped, in memory
\* and in storage.
C31_IdleStopAfterRestart ==
  (Quiescent /\ IdleRunning /\ NoTimer)
    ~> (sessionData # NULL /\ sessionData.status = "stopped" /\ storage = sessionData)

====
